---- MODULE Spec2Model ----
(***************************************************************************)
(* Model of src/src/Python/run.py: run(init, code, name, argv), the        *)
(* benchmark driver for pattern-matching algorithms.                       *)
(*                                                                         *)
(* One behaviour of the model is one call of run().  The Loader            *)
(* (read_sequences, read_patterns, read_answers) and the Matcher (init,    *)
(* code) are parameters of run(): what they return is chosen               *)
(* nondeterministically from small sets, and every interaction the driver  *)
(* has with them, with the clock and with its two output channels is       *)
(* appended to trace.  Exceptions raised inside the Loader or the Matcher  *)
(* are not modelled; exceptions raised by run() itself are.                *)
(***************************************************************************)
EXTENDS Integers, Sequences, FiniteSets, TLC

VARIABLES
    pc,               \* position of run(): a statement label or a terminal outcome
    argc,             \* len(argv)
    sequences_data,   \* local sequences_data (strings, then lists of codes)
    patterns_data,    \* local patterns_data (strings, then lists of codes)
    answers_data,     \* local answers_data: None or the grid read_answers returned
    return_code,      \* local return_code
    pattern,          \* outer loop index
    sequence,         \* inner loop index
    pat_data,         \* local pat_data: the handle init returned
    start_time,       \* local start_time, in ticks of the logical clock
    loaded,           \* history: the strings as the Loader returned them
    trace             \* history: Loader, clock, Encoder, Matcher and output events

vars == <<pc, argc, sequences_data, patterns_data, answers_data, return_code,
          pattern, sequence, pat_data, start_time, loaded, trace>>

(***************************************************************************)
(* Bounds and input domains.                                               *)
(***************************************************************************)
MaxArgc == 5        \* len(argv) ranges over 1..MaxArgc
MaxCorpus == 3      \* the Loader returns at most MaxCorpus strings in all

\* The strings the Loader can return; "ba" has two distinct characters, so
\* an encoding that reorders or drops characters is visible.
Corpus == { <<"a">>, <<"b", "a">> }

\* The values a Matcher can return and an answer cell can hold.
Counts == {0, 1}

\* The display name passed as the parameter name.
AlgName == "algorithm"

SeqsOf(S, n) == UNION { [1..k -> S] : k \in 0..n }

(***************************************************************************)
(* Python values.                                                          *)
(***************************************************************************)
None == [some |-> FALSE, val |-> <<>>]
Some(x) == [some |-> TRUE, val |-> x]

\* ord() on the characters of the corpus.
ord == [c \in {"a", "b"} |-> IF c = "a" THEN 97 ELSE 98]

\* Mutant of Encode: the codes come out in reverse order.
EncodeReversed(s) == [i \in 1..Len(s) |-> ord[s[Len(s) + 1 - i]]]

\* list(map(ord, s))
Encode(s) == [i \in 1..Len(s) |-> ord[s[i]]]

\* [list(map(ord, x)) for x in data]
EncodeAll(data) == [i \in 1..Len(data) |-> Encode(data[i])]

(***************************************************************************)
(* The conditions and expressions of run().                                *)
(***************************************************************************)
\* Mutant of UsageError: the upper limit of the test is lost.
UsageTooFewOnly(n) == n < 3

\* len(argv) < 3 or len(argv) > 4
UsageError(n) == n < 3 \/ n > 4

\* len(argv) == 4
HasAnswers(n) == n = 4

\* Mutant of CountMismatch: only a grid with too few rows is rejected.
CountTooFewOnly(answers, patterns) == Len(answers) < Len(patterns)

\* len(answers_data) != len(patterns_data)
CountMismatch(answers, patterns) == Len(answers) # Len(patterns)

\* pat = patterns_data[pattern]
PatAt(data, p) == data[p + 1]

\* seq = sequences_data[sequence]
SeqAt(data, s) == data[s + 1]

\* init(pat): the Matcher's handle, opaque to the driver.  It is modelled
\* as a fresh identity (the number of the init call) tagged with the
\* argument the call was given.
InitHandle(n, pat) == [id |-> n, of |-> pat]

\* pat_data = init(pat): the handle of the previous pattern is replaced.
\* Mutant: the first handle is kept for every later pattern.
KeepFirstHandle(old, new) == IF old.id = 0 THEN new ELSE old

NewPatData(old, new) == new

\* Mutant of Bump: the counter is a flag that saturates at 1.
BumpToFlag(rc) == IF rc = 0 THEN 1 ELSE rc

\* return_code += 1
Bump(rc) == rc + 1

\* The outcome of the verification block for one pair, given the value m
\* that code() returned:
\*   "skip"        answers_data is None
\*   "IndexError"  answers_data[pattern][sequence] does not exist
\*   "mismatch"    matches != answers_data[pattern][sequence]
\*   "ok"          otherwise
\* Mutant of Verdict: a missing grid is compared as a grid of zeros.
MissingGridAsZeros(ans, p, s, m) ==
    IF ~ans.some
    THEN IF m # 0 THEN [kind |-> "mismatch", expected |-> 0]
                  ELSE [kind |-> "ok", expected |-> 0]
    ELSE IF p + 1 > Len(ans.val) \/ s + 1 > Len(ans.val[p + 1])
         THEN [kind |-> "IndexError", expected |-> 0]
         ELSE IF m # ans.val[p + 1][s + 1]
              THEN [kind |-> "mismatch", expected |-> ans.val[p + 1][s + 1]]
              ELSE [kind |-> "ok", expected |-> ans.val[p + 1][s + 1]]

Verdict(ans, p, s, m) ==
    IF ~ans.some
    THEN [kind |-> "skip", expected |-> 0]
    ELSE IF p + 1 > Len(ans.val) \/ s + 1 > Len(ans.val[p + 1])
         THEN [kind |-> "IndexError", expected |-> 0]
         ELSE IF m # ans.val[p + 1][s + 1]
              THEN [kind |-> "mismatch", expected |-> ans.val[p + 1][s + 1]]
              ELSE [kind |-> "ok", expected |-> ans.val[p + 1][s + 1]]

\* Loop control: where run() is once the inner loop's header is reached
\* with index s for pattern p.  range() is exhausted when s reaches
\* len(sequences_data); the outer loop then moves to pattern p + 1 and is
\* exhausted when that reaches len(patterns_data).
OuterPc(p) == IF p < Len(patterns_data) THEN "outer" ELSE "stop_clock"

LoopAt(p, s) ==
    IF s < Len(sequences_data)
    THEN [pc |-> "inner", pattern |-> p, sequence |-> s]
    ELSE [pc |-> OuterPc(p + 1), pattern |-> p + 1, sequence |-> s]

(***************************************************************************)
(* Initial state: run() has been called with some argv.                    *)
(***************************************************************************)
Init ==
    /\ pc = "start"
    /\ argc \in 1..MaxArgc
    /\ sequences_data = <<>>
    /\ patterns_data = <<>>
    /\ answers_data = None
    /\ return_code = 0
    /\ pattern = 0
    /\ sequence = 0
    /\ pat_data = InitHandle(0, <<>>)
    /\ start_time = 0
    /\ loaded = [sequences |-> <<>>, patterns |-> <<>>]
    /\ trace = <<>>

(***************************************************************************)
(* Steps of run().                                                         *)
(***************************************************************************)
\* if len(argv) < 3 or len(argv) > 4: raise Exception("Usage: ...")
CheckUsage ==
    /\ pc = "start"
    /\ pc' = IF UsageError(argc) THEN "UsageError" ELSE "read_sequences"
    /\ UNCHANGED <<argc, sequences_data, patterns_data, answers_data, return_code,
                   pattern, sequence, pat_data, start_time, loaded, trace>>

\* sequences_data = read_sequences(argv[1])
ReadSequences ==
    /\ pc = "read_sequences"
    /\ \E seqs \in SeqsOf(Corpus, MaxCorpus) :
          /\ sequences_data' = seqs
          /\ loaded' = [loaded EXCEPT !.sequences = seqs]
    /\ trace' = Append(trace, [op |-> "read_sequences"])
    /\ pc' = "read_patterns"
    /\ UNCHANGED <<argc, patterns_data, answers_data, return_code,
                   pattern, sequence, pat_data, start_time>>

\* patterns_data = read_patterns(argv[2]); if len(argv) == 4: ... else: ...
ReadPatterns ==
    /\ pc = "read_patterns"
    /\ \E pats \in SeqsOf(Corpus, MaxCorpus - Len(sequences_data)) :
          /\ patterns_data' = pats
          /\ loaded' = [loaded EXCEPT !.patterns = pats]
    /\ trace' = Append(trace, [op |-> "read_patterns"])
    /\ pc' = IF HasAnswers(argc) THEN "read_answers" ELSE "no_answers"
    /\ UNCHANGED <<argc, sequences_data, answers_data, return_code,
                   pattern, sequence, pat_data, start_time>>

\* answers_data = read_answers(argv[3])
\* The grid has any number of rows and each row any number of columns up
\* to the number of sequences: the Loader is not checked for more than
\* the row count.
ReadAnswers ==
    /\ pc = "read_answers"
    /\ \E grid \in SeqsOf(SeqsOf(Counts, Len(sequences_data)),
                          MaxCorpus - Len(sequences_data)) :
          answers_data' = Some(grid)
    /\ trace' = Append(trace, [op |-> "read_answers"])
    /\ pc' = "check_answers"
    /\ UNCHANGED <<argc, sequences_data, patterns_data, return_code,
                   pattern, sequence, pat_data, start_time, loaded>>

\* if len(answers_data) != len(patterns_data): raise Exception("Count mismatch ...")
CheckAnswers ==
    /\ pc = "check_answers"
    /\ pc' = IF CountMismatch(answers_data.val, patterns_data)
             THEN "CountMismatchError" ELSE "start_clock"
    /\ UNCHANGED <<argc, sequences_data, patterns_data, answers_data, return_code,
                   pattern, sequence, pat_data, start_time, loaded, trace>>

\* else: answers_data = None
NoAnswers ==
    /\ pc = "no_answers"
    /\ answers_data' = None
    /\ pc' = "start_clock"
    /\ UNCHANGED <<argc, sequences_data, patterns_data, return_code,
                   pattern, sequence, pat_data, start_time, loaded, trace>>

\* start_time = perf_counter(); return_code = 0
StartClock ==
    /\ pc = "start_clock"
    /\ start_time' = Len(trace)
    /\ return_code' = 0
    /\ trace' = Append(trace, [op |-> "clock_start"])
    /\ pc' = "encode"
    /\ UNCHANGED <<argc, sequences_data, patterns_data, answers_data,
                   pattern, sequence, pat_data, loaded>>

\* patterns_data = [list(map(ord, pattern)) for pattern in patterns_data]
\* sequences_data = [list(map(ord, sequence)) for sequence in sequences_data]
\* followed by the first test of the outer loop
EncodeStep ==
    /\ pc = "encode"
    /\ patterns_data' = EncodeAll(patterns_data)
    /\ sequences_data' = EncodeAll(sequences_data)
    /\ trace' = Append(trace, [op |-> "encode"])
    /\ pattern' = 0
    /\ pc' = OuterPc(0)
    /\ UNCHANGED <<argc, answers_data, return_code, sequence, pat_data,
                   start_time, loaded>>

\* pat = patterns_data[pattern]; pat_data = init(pat)
\* followed by the first test of the inner loop
InitCall ==
    /\ pc = "outer"
    /\ LET pat == PatAt(patterns_data, pattern)
           n == Cardinality({i \in 1..Len(trace) : trace[i].op = "Init"}) + 1
           handle == InitHandle(n, pat)
           next == LoopAt(pattern, 0)
       IN /\ pat_data' = NewPatData(pat_data, handle)
          /\ trace' = Append(trace, [op |-> "Init", p |-> pattern,
                                     arg |-> pat, ret |-> handle])
          /\ pc' = next.pc
          /\ pattern' = next.pattern
          /\ sequence' = next.sequence
    /\ UNCHANGED <<argc, sequences_data, patterns_data, answers_data, return_code,
                   start_time, loaded>>

\* seq = sequences_data[sequence]; matches = code(pat_data, seq)
\* if answers_data is not None: if matches != answers_data[pattern][sequence]:
\*     print(..., file=stderr); return_code += 1
\* followed by the next test of the inner loop
MatchStep ==
    /\ pc = "inner"
    /\ \E m \in Counts :
          LET seq == SeqAt(sequences_data, sequence)
              call == [op |-> "MatchCount", p |-> pattern, s |-> sequence,
                       handle |-> pat_data, seq |-> seq, ret |-> m]
              v == Verdict(answers_data, pattern, sequence, m)
              diag == [op |-> "diagnostic", p |-> pattern + 1, s |-> sequence + 1,
                       actual |-> m, expected |-> v.expected]
              next == LoopAt(pattern, sequence + 1)
          IN IF v.kind = "IndexError"
             THEN /\ pc' = "IndexError"
                  /\ trace' = Append(trace, call)
                  /\ UNCHANGED <<return_code, pattern, sequence>>
             ELSE /\ trace' = IF v.kind = "mismatch"
                              THEN trace \o <<call, diag>>
                              ELSE Append(trace, call)
                  /\ return_code' = IF v.kind = "mismatch"
                                    THEN Bump(return_code) ELSE return_code
                  /\ pc' = next.pc
                  /\ pattern' = next.pattern
                  /\ sequence' = next.sequence
    /\ UNCHANGED <<argc, sequences_data, patterns_data, answers_data, pat_data,
                   start_time, loaded>>

\* elapsed = perf_counter() - start_time
StopClock ==
    /\ pc = "stop_clock"
    /\ trace' = Append(trace, [op |-> "clock_stop", elapsed |-> Len(trace) - start_time])
    /\ pc' = "report"
    /\ UNCHANGED <<argc, sequences_data, patterns_data, answers_data, return_code,
                   pattern, sequence, pat_data, start_time, loaded>>

\* print(f"language: python\nalgorithm: {name}\nruntime: {elapsed:.6f}")
Report ==
    /\ pc = "report"
    /\ trace' = Append(trace, [op |-> "report", language |-> "python",
                               algorithm |-> AlgName,
                               runtime |-> trace[Len(trace)].elapsed])
    /\ pc' = "return"
    /\ UNCHANGED <<argc, sequences_data, patterns_data, answers_data, return_code,
                   pattern, sequence, pat_data, start_time, loaded>>

\* return return_code
Return ==
    /\ pc = "return"
    /\ pc' = "returned"
    /\ UNCHANGED <<argc, sequences_data, patterns_data, answers_data, return_code,
                   pattern, sequence, pat_data, start_time, loaded, trace>>

Next ==
    \/ CheckUsage
    \/ ReadSequences
    \/ ReadPatterns
    \/ ReadAnswers
    \/ CheckAnswers
    \/ NoAnswers
    \/ StartClock
    \/ EncodeStep
    \/ InitCall
    \/ MatchStep
    \/ StopClock
    \/ Report
    \/ Return

Spec == Init /\ [][Next]_vars

(***************************************************************************)
(* Vocabulary of the properties.                                           *)
(***************************************************************************)
Terminal == {"UsageError", "CountMismatchError", "IndexError", "returned"}

\* The positions of trace that hold an event of kind o.
Events(o) == {i \in 1..Len(trace) : trace[i].op = o}

\* The numbers of patterns and of sequences the Loader returned.
NP == Len(loaded.patterns)
NS == Len(loaded.sequences)

Pairs == (0..(NP - 1)) \X (0..(NS - 1))

\* The positions of the init calls for pattern p and of the code calls for
\* the pair (p, s).
InitsOf(p) == {i \in Events("Init") : trace[i].p = p}
MatchesOf(p, s) == {i \in Events("MatchCount") : trace[i].p = p /\ trace[i].s = s}

\* The count the Matcher returned for the pair (p, s).
Actual(p, s) == trace[CHOOSE i \in MatchesOf(p, s) : TRUE].ret

\* c is the list of code points of the string str: same length, and the
\* k-th code is the code of the k-th character.
IsCodesOf(c, str) ==
    /\ Len(c) = Len(str)
    /\ \A k \in 1..Len(str) : c[k] = ord[str[k]]

\* The run got past validation: the clock was started.
PassedValidation == Events("clock_start") # {}

\* Every pattern was preprocessed and every pair was matched.
LoopComplete ==
    /\ \A p \in 0..(NP - 1) : Cardinality(InitsOf(p)) = 1
    /\ \A pr \in Pairs : Cardinality(MatchesOf(pr[1], pr[2])) = 1

(***************************************************************************)
(* C1: when run() returns and an answer grid was supplied (its row count   *)
(* equal to the pattern count), the returned status is the number of pairs *)
(* (p, s) whose count from the Matcher differs from AnswerMatrix[p][s]:    *)
(* the exact number, not a flag and not a capped value.                    *)
(***************************************************************************)
C1_StatusIsMismatchCount ==
    (pc = "returned" /\ answers_data.some) =>
        return_code = Cardinality({pr \in Pairs :
            Actual(pr[1], pr[2]) # answers_data.val[pr[1] + 1][pr[2] + 1]})

\* A run returned a status greater than 1: two pairs mismatched.
C1_Witness ==
    /\ pc = "returned"
    /\ answers_data.some
    /\ return_code >= 2

(***************************************************************************)
(* C2: with exactly two inputs (no answers source) no diagnostic is ever   *)
(* emitted, the mismatch counter stays 0, so the returned status is 0,     *)
(* whatever the Matcher returns, and the run raises nothing.               *)
(***************************************************************************)
C2_NoAnswersStatusZero ==
    (argc = 3) =>
        /\ Events("diagnostic") = {}
        /\ return_code = 0
        /\ pc \notin {"UsageError", "CountMismatchError", "IndexError"}

\* A run without answers returned after the Matcher reported a non-zero count.
C2_Witness ==
    /\ argc = 3
    /\ pc = "returned"
    /\ \E i \in Events("MatchCount") : trace[i].ret # 0

C4_UsageErrorExactly ==
    (pc # "start") =>
        IF argc - 1 \in {2, 3}
        THEN pc # "UsageError"
        ELSE pc = "UsageError" /\ trace = <<>>

\* The usage error was raised for four inputs.
C4_Witness == pc = "UsageError" /\ argc - 1 = 4

(***************************************************************************)
(* C5: when an answers source is supplied and the grid's row count differs *)
(* from the pattern count, run() raises the count-mismatch error right     *)
(* after the three Loader calls: the clock is not started, nothing is      *)
(* encoded, the Matcher is not called, nothing is reported or returned.    *)
(***************************************************************************)
C5_CountMismatchBeforeWork ==
    (answers_data.some /\ Len(answers_data.val) # NP /\ pc # "check_answers") =>
        /\ pc = "CountMismatchError"
        /\ trace = <<[op |-> "read_sequences"], [op |-> "read_patterns"],
                     [op |-> "read_answers"]>>
        /\ patterns_data = loaded.patterns
        /\ sequences_data = loaded.sequences

\* The error was raised for a grid with more rows than there are patterns.
C5_Witness ==
    /\ pc = "CountMismatchError"
    /\ Len(answers_data.val) > NP
    /\ NP > 0

(***************************************************************************)
(* C6: a mismatch never aborts the loop.  Each pair whose count differs    *)
(* from its answer cell emits exactly one diagnostic carrying p + 1,       *)
(* s + 1, the actual and the expected count, a pair that agrees emits      *)
(* none, and the number of diagnostics equals the mismatch counter; and    *)
(* once a pair has mismatched, every remaining pair is still processed,    *)
(* so the run ends by returning with all pairs matched.                    *)
(***************************************************************************)
C6_Diagnostics ==
    /\ Cardinality(Events("diagnostic")) = return_code
    /\ \A i \in Events("MatchCount") :
          LET e == trace[i]
              v == Verdict(answers_data, e.p, e.s, e.ret)
          IN /\ v.kind = "mismatch" =>
                  /\ i < Len(trace)
                  /\ trace[i + 1] = [op |-> "diagnostic", p |-> e.p + 1, s |-> e.s + 1,
                                     actual |-> e.ret, expected |-> v.expected]
             /\ v.kind # "mismatch" =>
                  (i < Len(trace) => trace[i + 1].op # "diagnostic")
    /\ \A i \in Events("diagnostic") : i > 1 /\ trace[i - 1].op = "MatchCount"

C6_MismatchNeverAborts ==
    /\ C6_Diagnostics
    /\ (pc \in Terminal /\ Events("diagnostic") # {}) =>
          (pc = "returned" /\ LoopComplete)

(***************************************************************************)
(* C7: every run either fails during validation, before the clock starts   *)
(* and before any Matcher call, or runs the whole loop, emits the report   *)
(* and returns; no run calls the Matcher and then stops without a report.  *)
(***************************************************************************)
C7_CompleteOrFailFast ==
    (pc \in Terminal) =>
        \/ /\ pc \in {"UsageError", "CountMismatchError"}
           /\ ~PassedValidation
           /\ Events("Init") = {} /\ Events("MatchCount") = {}
        \/ /\ pc = "returned"
           /\ LoopComplete
           /\ Events("report") # {}

(***************************************************************************)
(* C8: in every run that passes validation the report is emitted exactly   *)
(* once, after the last code call has returned and the stop time has been  *)
(* taken, before the status is returned, and whatever the mismatch         *)
(* counter is.  Stated of the runs that have ended.                        *)
(***************************************************************************)
C8_ReportPlacement ==
    /\ Cardinality(Events("report")) <= 1
    /\ \A i \in Events("report") :
          /\ \E j \in Events("clock_stop") : j < i
          /\ \A k \in Events("MatchCount") \cup Events("Init") : k < i
          /\ i = Len(trace)
          /\ LoopComplete
    /\ pc = "returned" => Events("report") # {}

C8_ReportExactlyOnce ==
    /\ C8_ReportPlacement
    /\ (pc \in Terminal /\ PassedValidation) => Cardinality(Events("report")) = 1

(***************************************************************************)
(* C9: the phases of a run come in a fixed order: the Loader calls and     *)
(* validation, the clock start, the encoding of all patterns and           *)
(* sequences, the Matcher calls, the clock stop after the last of them,    *)
(* the report.  So the encoding lies inside the timed region, everything   *)
(* is encoded before the first init call, and the Matcher only receives    *)
(* lists of codes with the length and the order of the loaded strings.     *)
(***************************************************************************)
Phase(o) ==
    CASE o \in {"read_sequences", "read_patterns", "read_answers"} -> 1
      [] o = "clock_start" -> 2
      [] o = "encode" -> 3
      [] o \in {"Init", "MatchCount", "diagnostic"} -> 4
      [] o = "clock_stop" -> 5
      [] o = "report" -> 6

\* The phases that may come right before an event of phase n: a Loader call
\* follows a Loader call, the clock start follows a Loader call, the
\* encoding follows the clock start, a Matcher call follows the encoding
\* or a Matcher call, the clock stop follows the encoding (an empty loop)
\* or a Matcher call, the report follows the clock stop.
Before(n) ==
    CASE n = 1 -> {1}
      [] n = 2 -> {1}
      [] n = 3 -> {2}
      [] n = 4 -> {3, 4}
      [] n = 5 -> {3, 4}
      [] n = 6 -> {5}

C9_PhaseOrder ==
    /\ trace # <<>> => Phase(trace[1].op) = 1
    /\ \A i \in 1..(Len(trace) - 1) :
          Phase(trace[i].op) \in Before(Phase(trace[i + 1].op))
    /\ PassedValidation =>
          /\ argc - 1 \in {2, 3}
          /\ trace[1].op = "read_sequences" /\ trace[2].op = "read_patterns"
          /\ answers_data.some <=> argc - 1 = 3
          /\ answers_data.some => Len(answers_data.val) = NP
    /\ Events("clock_stop") # {} =>
          /\ Cardinality(Events("Init")) = NP
          /\ Cardinality(Events("MatchCount")) = NP * NS
    /\ Events("encode") # {} =>
          /\ Len(patterns_data) = NP /\ Len(sequences_data) = NS
          /\ \A p \in 1..NP : IsCodesOf(patterns_data[p], loaded.patterns[p])
          /\ \A s \in 1..NS : IsCodesOf(sequences_data[s], loaded.sequences[s])
    /\ \A i \in Events("Init") : IsCodesOf(trace[i].arg, loaded.patterns[trace[i].p + 1])
    /\ \A i \in Events("MatchCount") :
          IsCodesOf(trace[i].seq, loaded.sequences[trace[i].s + 1])

\* A run went through every phase and the Matcher received the codes of
\* "ba" both as a pattern and as a sequence.
C9_Witness ==
    /\ pc = "returned"
    /\ \E i \in Events("Init") : trace[i].arg = <<98, 97>>
    /\ \E i \in Events("MatchCount") : trace[i].seq = <<98, 97>>

(***************************************************************************)
(* C10: a handle is never reused across patterns.  In every code call for  *)
(* a pair (p, s) the handle is the one returned by the single init call    *)
(* made on the codes of patterns[p], which precedes it, it is not the      *)
(* handle returned for any other pattern index, and the sequence argument  *)
(* is the encoding of sequences[s].                                        *)
(***************************************************************************)
C10_HandleOfOwnPattern ==
    \A i \in Events("MatchCount") :
        LET e == trace[i]
        IN /\ Cardinality(InitsOf(e.p)) = 1
           /\ \A j \in InitsOf(e.p) :
                 /\ j < i
                 /\ trace[j].ret = e.handle
                 /\ IsCodesOf(trace[j].arg, loaded.patterns[e.p + 1])
           /\ \A j \in Events("Init") : trace[j].p # e.p => trace[j].ret # e.handle
           /\ IsCodesOf(e.seq, loaded.sequences[e.s + 1])

\* A run matched a second pattern, equal as a string to the first, against a
\* sequence.
C10_Witness ==
    /\ pc = "returned"
    /\ \E i \in Events("MatchCount") :
          /\ trace[i].p = 1
          /\ loaded.patterns[1] = loaded.patterns[2]

====
